---- MODULE Spec2Model ----
(***************************************************************************)
(* Model of the chat-session and streaming-response layer                  *)
(* (generateSearchResponse and the chatSessions registry) and of the       *)
(* HTTP search proxy (the handler given to serve), and of the search       *)
(* handler of the App component (handleSearch).                            *)
(*                                                                         *)
(* Strings that the code concatenates (fullText, chunk.text, the notices)  *)
(* are sequences of characters, so that `+=` is \o and "begins with" is a  *)
(* prefix test.  Strings that the code only compares or copies (session    *)
(* ids, prompts, titles, uris, JSON fields) are TLA+ strings; Undefined     *)
(* stands for an absent one.                                               *)
(*                                                                         *)
(* One action is one run of the code between two suspension points         *)
(* (awaits) or up to the transfer of control into a catch block.           *)
(***************************************************************************)
EXTENDS Integers, Sequences, FiniteSets, TLC

VARIABLES
    chatSessions,  \* the module-level Map: a set of <<key, Chat>> entries
    created,       \* number of Chat objects constructed so far (object identity)
    history,       \* per Chat object: the sends issued on it, in order
    pc,            \* per call: where the call is suspended
    sessionId,     \* per call: argument sessionId
    prompt,        \* per call: argument prompt
    chat,          \* per call: local `chat`
    fullText,      \* per call: local `fullText` (primary, then the fallback's own)
    sources,       \* per call: local `sources`
    stream,        \* per call: chunks the primary stream has yielded so far
    fallbackStream,\* per call: chunks the fallback stream has yielded so far
    delivered,     \* per call: arguments onChunk was invoked with, in order
    result,        \* per call: the GenerationResult the promise resolved with
    outcome,       \* per call: "pending", "resolved" or "rejected"
    fallbackRequest, \* per call: the fallback request issued, NoRequest before
    trace,         \* per call: states of the call's state machine passed so far
    faults,        \* per call: what failed during the call, in order
    proxyPc,       \* the proxy's handler: where it is suspended
    request,       \* the proxy's handler: the request it serves, with the environment
    response,      \* the proxy's handler: local `geminiResponse`
    reply,         \* the proxy's handler: the Response it returned
    thrown,        \* the proxy's handler: message of the error its catch received
    fetches,       \* the proxy's handler: provider calls made for the request
    currentView,   \* App state `currentView`
    appSessionId,  \* App state `sessionId`
    messages,      \* App state `messages`
    isLoading,     \* App state `isLoading`
    query,         \* App state `query`
    searchPc,      \* handleSearch: where the running search is suspended
    activeSessionId, \* handleSearch: local `activeSessionId`
    searchQuery,   \* handleSearch: local `searchQuery`
    generateCalls, \* the calls of generateSearchResponse made by handleSearch, in order
    newIds,        \* number of session ids generated since the App was mounted
    attempt        \* the last invocation of handleSearch: what it saw and whether it went on

proxyVars == <<proxyPc, request, response, reply, thrown, fetches>>

appVars == <<currentView, appSessionId, messages, isLoading, query, searchPc,
             activeSessionId, searchQuery, generateCalls, newIds, attempt>>

generateVars == <<chatSessions, created, history, pc, sessionId, prompt, chat, fullText,
                  sources, stream, fallbackStream, delivered, result, outcome,
                  fallbackRequest, trace, faults>>

vars == <<generateVars, proxyVars, appVars>>

-----------------------------------------------------------------------------
(* Bounds of the model *)

MaxCalls == 2
MaxChunks == 3
MaxSourceChunks == 2
MaxSharedChunks == 1
MaxSearches == 3

Calls == 1..MaxCalls
ChatIds == 1..MaxCalls
NoChat == 0
SessionIds == {"s1", "s2"}
Prompts == {"p1", "p2"}

-----------------------------------------------------------------------------
(* Data *)

\* The two fixed strings of the fallback branches (each one character here).
Notice == <<"(Live search unavailable. Using offline knowledge.)">>
ErrorMsg == <<"(Error: Unable to connect to AI service. Please check your connection.)">>

\* Text a chunk can carry: the empty string, or one character.
Texts == {<<>>, <<"a">>, <<"b">>}
\* c.web.title and c.web.uri: absent (undefined), the empty string, or a
\* non-empty string.
Undefined == "undefined"
Titles == {Undefined, "", "A"}
Uris == {Undefined, "", "u1", "u2"}

\* A grounding entry: without `web`, or with a `web` whose title/uri may be falsy.
NoWeb == [hasWeb |-> FALSE, title |-> Undefined, uri |-> Undefined]
WebEntries == [hasWeb : {TRUE}, title : Titles, uri : Uris]

NoGrounding == [hasText |-> FALSE, text |-> <<>>, hasGrounding |-> FALSE, groundingChunks |-> <<>>]
TextChunk(t) == [NoGrounding EXCEPT !.hasText = TRUE, !.text = t]
GroundingChunk(g) == [NoGrounding EXCEPT !.hasGrounding = TRUE, !.groundingChunks = g]

\* Chunks the provider's streams yield: no text, text only, grounding only
\* (no entry, one entry, two entries), or text together with grounding.
TextChunks == {NoGrounding} \cup {TextChunk(t) : t \in Texts}
SecondEntries == {[hasWeb |-> TRUE, title |-> "B", uri |-> "u1"],
                  [hasWeb |-> TRUE, title |-> "", uri |-> Undefined]}
GroundingChunks == {GroundingChunk(<<>>), GroundingChunk(<<NoWeb>>)}
                     \cup {GroundingChunk(<<e>>) : e \in WebEntries}
                     \cup {GroundingChunk(<<e1, e2>>) : e1 \in WebEntries, e2 \in SecondEntries}
BothChunks == {[TextChunk(<<"a">>) EXCEPT !.hasGrounding = TRUE, !.groundingChunks = <<e, NoWeb, e>>]
                 : e \in {[hasWeb |-> TRUE, title |-> "A", uri |-> "u1"]}}

-----------------------------------------------------------------------------
(* The Map chatSessions *)

MapHas(m, k) == \E e \in m : e[1] = k

\* A lookup that ignores the key and returns whatever entry there is.
MapGetAny(m, k) == IF m # {} THEN (CHOOSE e \in m : TRUE)[2] ELSE NoChat

\* Map.get: the value stored under k, undefined (NoChat) without one.
MapGet(m, k) == IF MapHas(m, k) THEN (CHOOSE e \in m : e[1] = k)[2] ELSE NoChat

\* A store that overwrites the whole map with the one entry.
MapSetOnly(m, k, v) == {<<k, v>>}

\* Map.set: the entry of k is replaced, the other entries are kept.
MapSet(m, k, v) == {e \in m : e[1] # k} \cup {<<k, v>>}

\* A session is created on every call, whether or not one was found.
ShouldCreateAlways(found) == TRUE

\* `if (!chat)`
ShouldCreate(found) == found = NoChat

-----------------------------------------------------------------------------
(* Text and sources *)

\* A test for a text that is present, empty or not.
HasTextDefined(chunk) == chunk.hasText

\* `if (text)`: the chunk has a text and it is not the empty string.
HasText(chunk) == chunk.hasText /\ chunk.text # <<>>

\* The increment is put in front of the accumulated text.
AccumulateFront(full, text) == text \o full

\* `fullText += text`
Accumulate(full, text) == full \o text

\* The values JavaScript's || takes for false: here undefined and ''.
Falsy(x) == x \in {Undefined, ""}

\* x ?? dflt in place of x || dflt: the default for an absent x only.
OrElseNullish(x, dflt) == IF x = Undefined THEN dflt ELSE x

\* x || dflt: the default when x is falsy, absent or empty.
OrElse(x, dflt) == IF Falsy(x) THEN dflt ELSE x

\* A forEach body without the `if (c.web)`: one source per entry.
RECURSIVE ExtractAll(_)
ExtractAll(entries) ==
    IF entries = <<>> THEN <<>>
    ELSE LET c == Head(entries) IN
         <<[title |-> OrElse(c.title, "Source"), uri |-> OrElse(c.uri, "#")]>>
             \o ExtractAll(Tail(entries))


\* A forEach that visits the entries from the last to the first.
RECURSIVE ExtractWebReversed(_)
ExtractWebReversed(entries) ==
    IF entries = <<>> THEN <<>>
    ELSE LET c == Head(entries) IN
         ExtractWebReversed(Tail(entries))
             \o (IF c.hasWeb
                   THEN <<[title |-> OrElse(c.title, "Source"), uri |-> OrElse(c.uri, "#")]>>
                   ELSE <<>>)

\* The forEach body: one source per entry that has `web`.
RECURSIVE ExtractWeb(_)
ExtractWeb(entries) ==
    IF entries = <<>> THEN <<>>
    ELSE LET c == Head(entries) IN
         (IF c.hasWeb
            THEN <<[title |-> OrElse(c.title, "Source"), uri |-> OrElse(c.uri, "#")]>>
            ELSE <<>>) \o ExtractWeb(Tail(entries))

\* `if (groundingChunks) groundingChunks.forEach(...)`: what is pushed to sources.
Extract(chunk) == IF chunk.hasGrounding THEN ExtractWeb(chunk.groundingChunks) ELSE <<>>

\* findLastIndex in place of findIndex: the last index with that uri.
FindLastIndex(self, uri) ==
    CHOOSE i \in 1..Len(self) : self[i].uri = uri /\ \A j \in (i + 1)..Len(self) : self[j].uri # uri

\* self.findIndex((t) => t.uri === uri): the first index with that uri.
FindIndex(self, uri) ==
    CHOOSE i \in 1..Len(self) : self[i].uri = uri /\ \A j \in 1..(i - 1) : self[j].uri # uri

\* sources.filter((source, index, self) => index === self.findIndex(...))
RECURSIVE FilterFrom(_, _)
FilterFrom(self, index) ==
    IF index > Len(self) THEN <<>>
    ELSE (IF index = FindIndex(self, self[index].uri) THEN <<self[index]>> ELSE <<>>)
           \o FilterFrom(self, index + 1)

UniqueSources(srcs) == FilterFrom(srcs, 1)

-----------------------------------------------------------------------------
(* Control flow *)

\* Every exception is transferred to the outer catch, the fallback's included.
HandlerOuter(tryBlock) == "primaryCatch"

\* The catch block an exception thrown in a try block is transferred to.
Handler(tryBlock) == IF tryBlock = "try" THEN "primaryCatch" ELSE "fallbackCatch"

Mark(c, states) == [trace EXCEPT ![c] = @ \o states]

\* The callback is not run in the loop body (its invocation is put off).
DeliverLater(c, text) == delivered

\* `onChunk(text)`: the callback runs, with text, before the statement ends.
Deliver(c, text) == [delivered EXCEPT ![c] = Append(@, text)]
Fault(c, what) == [faults EXCEPT ![c] = Append(@, what)]

\* The fallback returns what the primary path had collected.
FallbackSourcesKept(c) == UniqueSources(sources[c])

\* `sources: []` of the two fallback returns (lines 108 and 113).
FallbackSources(c) == <<>>

\* The fallback is sent the whole conversation of the call's session.
FallbackContentsOfSession(c) ==
    IF chat[c] = NoChat THEN <<prompt[c]>>
    ELSE [i \in DOMAIN history[chat[c]] |-> history[chat[c]][i].prompt]

\* `contents: prompt` of the fallback request (line 90): the prompt alone.
FallbackContents(c) == <<prompt[c]>>

registryVars == <<chatSessions, created, history>>
argVars == <<sessionId, prompt, chat>>

-----------------------------------------------------------------------------
(* The HTTP proxy: requests, provider responses, replies *)

Null == "null"

Methods == {"OPTIONS", "POST", "GET"}

\* What req.json() makes of the request body: it rejects (parses = FALSE), or
\* it gives JSON null, or a value whose `query` is absent, empty or a text.
Queries == {Undefined, "", "q"}
RequestBody(q) == [parses |-> TRUE, isNull |-> FALSE, query |-> q]
NullBody == [RequestBody(Undefined) EXCEPT !.isNull = TRUE]
UnparseableBody == [RequestBody(Undefined) EXCEPT !.parses = FALSE]
RequestBodies == {UnparseableBody, NullBody} \cup {RequestBody(q) : q \in Queries}

\* Deno.env.get('GEMINI_API_KEY')
ApiKeys == {Undefined, "", "key"}

NoSearchRequest == [method |-> "OPTIONS", body |-> UnparseableBody, key |-> Undefined]

\* candidates[0]: content and content.parts may be absent, parts may be empty,
\* parts[0].text and groundingMetadata may be absent.
Part(t) == [text |-> t]
Candidate(hasContent, hasParts, parts, gm) ==
    [hasContent |-> hasContent, hasParts |-> hasParts, parts |-> parts, groundingMetadata |-> gm]
Candidates ==
    {Candidate(FALSE, FALSE, <<>>, gm) : gm \in {Undefined, "gm"}}
    \cup {Candidate(TRUE, FALSE, <<>>, gm) : gm \in {Undefined, "gm"}}
    \cup {Candidate(TRUE, TRUE, <<>>, gm) : gm \in {Undefined, "gm"}}
    \cup {Candidate(TRUE, TRUE, <<Part(t)>>, gm) : t \in {Undefined, "", "answer"}, gm \in {Undefined, "gm"}}

\* What geminiResponse.json() gives: JSON null, or an object whose
\* error.message and candidates may be absent.
Data(msg, hasCandidates, candidates) ==
    [isNull |-> FALSE, errorMessage |-> msg, hasCandidates |-> hasCandidates, candidates |-> candidates]
NullData == [Data(Undefined, FALSE, <<>>) EXCEPT !.isNull = TRUE]
ErrorMessages == {Undefined, "", "quota exceeded"}
ProviderData ==
    {NullData}
    \cup {Data(msg, FALSE, <<>>) : msg \in ErrorMessages}
    \cup {Data(msg, TRUE, <<>>) : msg \in ErrorMessages}
    \cup {Data(msg, TRUE, <<cand>>) : msg \in ErrorMessages, cand \in Candidates}

\* The provider's HTTP response: status OK or not, body JSON or not.
ProviderResponses ==
    {[ok |-> ok, parses |-> FALSE, data |-> NullData] : ok \in BOOLEAN}
    \cup {[ok |-> ok, parses |-> TRUE, data |-> d] : ok \in BOOLEAN, d \in ProviderData}
NoResponse == [ok |-> FALSE, parses |-> FALSE, data |-> NullData]

\* Messages of the errors the handler's try block can raise.
BodySyntaxError == "SyntaxError: request body is not JSON"
BodyTypeError == "TypeError: cannot destructure property 'query' of null"
MissingQuery == "Missing 'query' in request body"
MissingKey == "Server Misconfiguration: GEMINI_API_KEY is missing"
NetworkError == "TypeError: fetch failed"
DataSyntaxError == "SyntaxError: provider body is not JSON"
DataTypeError == "TypeError: cannot read properties of null"
DefaultError == "Failed to generate content from Gemini"
Placeholder == "I couldn't generate an answer based on the search results."

OkStatus == 200
ErrorStatus == 500

\* A Response: status and body.  A JSON body is the object given to
\* JSON.stringify, which leaves out the keys whose value is undefined.
EmptyBody == [text |-> Undefined, answer |-> Undefined, groundingMetadata |-> Undefined,
              error |-> Undefined]
Keys(body) == {k \in DOMAIN body : body[k] # Undefined}
NoReply == [status |-> 0, body |-> EmptyBody]
Preflight == [status |-> OkStatus, body |-> [EmptyBody EXCEPT !.text = "ok"]]

\* The catch block's Response under the default status.
ErrorReplyOk(message) == [status |-> OkStatus, body |-> [EmptyBody EXCEPT !.error = message]]

\* Lines 89-97: the catch block's Response.
ErrorReply(message) == [status |-> ErrorStatus, body |-> [EmptyBody EXCEPT !.error = message]]

\* The two checks in the other order: the key first, then the query.
ValidationErrorKeyFirst(r) ==
    IF ~ r.body.parses THEN BodySyntaxError
    ELSE IF r.body.isNull THEN BodyTypeError
    ELSE IF r.key \in {Undefined, ""} THEN MissingKey
    ELSE IF r.body.query \in {Undefined, ""} THEN MissingQuery
    ELSE Undefined

\* Lines 19-28: the error raised before the provider is called, Undefined
\* when the request passes.
ValidationError(r) ==
    IF ~ r.body.parses THEN BodySyntaxError
    ELSE IF r.body.isNull THEN BodyTypeError
    ELSE IF Falsy(r.body.query) THEN MissingQuery
    ELSE IF Falsy(r.key) THEN MissingKey
    ELSE Undefined

\* Line 72: data.candidates?.[0], as a sequence of at most one candidate.
Candidate0(data) ==
    IF data.hasCandidates /\ Len(data.candidates) > 0 THEN <<data.candidates[1]>> ELSE <<>>

\* candidate?.content?.parts?.[0]?.text
TextOf(candidate) ==
    IF candidate = <<>> THEN Undefined
    ELSE LET c == candidate[1] IN
         IF ~ c.hasContent \/ ~ c.hasParts \/ Len(c.parts) = 0 THEN Undefined
         ELSE c.parts[1].text

\* candidate?.groundingMetadata
MetadataOf(candidate) == IF candidate = <<>> THEN Undefined ELSE candidate[1].groundingMetadata

\* Line 73
Answer(data) == OrElse(TextOf(Candidate0(data)), Placeholder)

\* Line 76
GroundingMetadata(data) == OrElse(MetadataOf(Candidate0(data)), Null)

\* Lines 64-72: the error raised once the provider has answered, Undefined
\* when the answer is used.
ResponseError(r) ==
    IF ~ r.parses THEN DataSyntaxError
    ELSE IF ~ r.ok
           THEN IF r.data.isNull THEN DataTypeError ELSE OrElse(r.data.errorMessage, DefaultError)
    ELSE IF r.data.isNull THEN DataTypeError
    ELSE Undefined

\* Lines 79-87
AnswerReply(data) ==
    [status |-> OkStatus,
     body |-> [EmptyBody EXCEPT !.answer = Answer(data),
                                !.groundingMetadata = GroundingMetadata(data)]]

-----------------------------------------------------------------------------
(* The App component: views, queries, messages *)

\* Views of ViewState that the search handler tells apart: home, the results
\* view, and one of the others.
Views == {"home", "search", "history"}

\* Contents of the search box, and of a tag or history item clicked.
QueryTexts == {"", " ", "q"}
Overrides == {Undefined, "tag"}

\* An id generator that gives the same id every time.
StaleId(n) == 1

\* crypto.randomUUID() (or Date.now().toString()): the n+1st id generated.
\* The ids of one App are taken to differ from each other.
NewId(n) == n + 1

\* !searchQuery.trim()
Blank(text) == text \in {"", " "}

UserMessage(text) == [role |-> "user", content |-> text, isStreaming |-> FALSE]
AiPlaceholder == [role |-> "model", content |-> "", isStreaming |-> TRUE]

\* The texts generateSearchResponse resolves with.
ResultTexts == {"", "answer"}

\* Lines 739-747: the updater that puts the result into the last message.
Finish(msgs, text) ==
    IF msgs[Len(msgs)].role = "model"
      THEN [msgs EXCEPT ![Len(msgs)] = [@ EXCEPT !.content = text, !.isStreaming = FALSE]]
      ELSE msgs

NoAttempt == [blank |-> TRUE, loading |-> FALSE, view |-> "home", went |-> FALSE]

-----------------------------------------------------------------------------
(* Initial state: the modules are loaded, no call and no request has been made *)

NoResult == [text |-> <<>>, sources |-> <<>>]
NoRequest == [contents |-> <<>>]

Init ==
    /\ chatSessions = {}
    /\ created = 0
    /\ history = [o \in ChatIds |-> <<>>]
    /\ pc = [c \in Calls |-> "idle"]
    /\ sessionId = [c \in Calls |-> "s1"]
    /\ prompt = [c \in Calls |-> "p1"]
    /\ chat = [c \in Calls |-> NoChat]
    /\ fullText = [c \in Calls |-> <<>>]
    /\ sources = [c \in Calls |-> <<>>]
    /\ stream = [c \in Calls |-> <<>>]
    /\ fallbackStream = [c \in Calls |-> <<>>]
    /\ delivered = [c \in Calls |-> <<>>]
    /\ result = [c \in Calls |-> NoResult]
    /\ outcome = [c \in Calls |-> "pending"]
    /\ fallbackRequest = [c \in Calls |-> NoRequest]
    /\ trace = [c \in Calls |-> <<>>]
    /\ faults = [c \in Calls |-> <<>>]
    /\ proxyPc = "idle"
    /\ request = NoSearchRequest
    /\ response = NoResponse
    /\ reply = NoReply
    /\ thrown = Undefined
    /\ fetches = 0
    /\ currentView = "home"
    /\ appSessionId = NewId(0)
    /\ messages = <<>>
    /\ isLoading = FALSE
    /\ query = ""
    /\ searchPc = "idle"
    /\ activeSessionId = NewId(0)
    /\ searchQuery = ""
    /\ generateCalls = <<>>
    /\ newIds = 1
    /\ attempt = NoAttempt

-----------------------------------------------------------------------------
(* generateSearchResponse, lines 14-44: the call runs up to its first await. *)
(* The session is looked up, created and stored when missing, and the prompt *)
(* is sent on it.  ai.chats.create may throw (createThrows).                 *)

Generate(c, sid, p, createThrows) ==
    /\ pc[c] = "idle"
    /\ \A d \in Calls : d < c => pc[d] # "idle"
    /\ sessionId' = [sessionId EXCEPT ![c] = sid]
    /\ prompt' = [prompt EXCEPT ![c] = p]
    /\ trace' = Mark(c, <<"START", "PRIMARY_STREAMING">>)
    /\ LET found == MapGet(chatSessions, sid)
           \* the send, and the calls whose response stream on that session
           \* object is being consumed when it is issued
           send == [call |-> c, sessionId |-> sid, prompt |-> p,
                    streaming |-> {d \in Calls : pc[d] = "primaryLoop" /\ chat[d] = found}]
       IN  IF ShouldCreate(found)
             THEN IF createThrows
                    THEN /\ pc' = [pc EXCEPT ![c] = Handler("try")]
                         /\ faults' = Fault(c, "create")
                         /\ UNCHANGED <<chatSessions, created, history, chat>>
                    ELSE /\ created' = created + 1
                         /\ chatSessions' = MapSet(chatSessions, sid, created + 1)
                         /\ chat' = [chat EXCEPT ![c] = created + 1]
                         /\ history' = [history EXCEPT ![created + 1] = Append(@, send)]
                         /\ pc' = [pc EXCEPT ![c] = "awaitSend"]
                         /\ UNCHANGED faults
             ELSE /\ createThrows = FALSE
                  /\ chat' = [chat EXCEPT ![c] = found]
                  /\ history' = [history EXCEPT ![found] = Append(@, send)]
                  /\ pc' = [pc EXCEPT ![c] = "awaitSend"]
                  /\ UNCHANGED <<chatSessions, created, faults>>
    /\ UNCHANGED <<fullText, sources, stream, fallbackStream, delivered, result, outcome,
                   fallbackRequest>>
    /\ UNCHANGED <<proxyVars, appVars>>

\* Line 42: the awaited send resolves with the response stream; lines 46-47.
SendResolves(c) ==
    /\ pc[c] = "awaitSend"
    /\ pc' = [pc EXCEPT ![c] = "primaryLoop"]
    /\ fullText' = [fullText EXCEPT ![c] = <<>>]
    /\ sources' = [sources EXCEPT ![c] = <<>>]
    /\ UNCHANGED <<registryVars, argVars, fallbackRequest, stream, fallbackStream, delivered, result, outcome, faults, trace>>
    /\ UNCHANGED <<proxyVars, appVars>>

\* Line 42: the awaited send rejects.
SendRejects(c) ==
    /\ pc[c] = "awaitSend"
    /\ pc' = [pc EXCEPT ![c] = Handler("try")]
    /\ UNCHANGED <<registryVars, argVars, fallbackRequest, fullText, sources, stream, fallbackStream,
                   delivered, result, outcome, trace>>
    /\ faults' = Fault(c, "send")
    /\ UNCHANGED <<proxyVars, appVars>>

\* Lines 49-68: the primary stream yields a chunk and the loop body runs.
\* onChunk may throw (throws), which ends the body before the extraction.
PrimaryChunk(c, chunk, throws) ==
    /\ pc[c] = "primaryLoop"
    /\ stream' = [stream EXCEPT ![c] = Append(@, chunk)]
    /\ IF HasText(chunk)
         THEN /\ fullText' = [fullText EXCEPT ![c] = Accumulate(@, chunk.text)]
              /\ delivered' = Deliver(c, chunk.text)
         ELSE /\ throws = FALSE
              /\ UNCHANGED <<fullText, delivered>>
    /\ IF throws
         THEN /\ pc' = [pc EXCEPT ![c] = Handler("try")]
              /\ UNCHANGED sources
         ELSE /\ sources' = [sources EXCEPT ![c] = @ \o Extract(chunk)]
              /\ UNCHANGED pc
    /\ UNCHANGED <<registryVars, argVars, fallbackRequest, fallbackStream, result, outcome, trace>>
    /\ faults' = IF throws THEN Fault(c, "onChunk") ELSE faults
    /\ UNCHANGED <<proxyVars, appVars>>

\* Lines 70-79: the primary stream is exhausted; dedupe and return.
PrimaryEnd(c) ==
    /\ pc[c] = "primaryLoop"
    /\ result' = [result EXCEPT ![c] = [text |-> fullText[c], sources |-> UniqueSources(sources[c])]]
    /\ outcome' = [outcome EXCEPT ![c] = "resolved"]
    /\ pc' = [pc EXCEPT ![c] = "done"]
    /\ trace' = Mark(c, <<"SUCCESS">>)
    /\ UNCHANGED <<registryVars, argVars, fallbackRequest, fullText, sources, stream, fallbackStream, delivered, faults>>
    /\ UNCHANGED <<proxyVars, appVars>>

\* Line 49: the primary stream fails instead of yielding.
PrimaryStreamError(c) ==
    /\ pc[c] = "primaryLoop"
    /\ pc' = [pc EXCEPT ![c] = Handler("try")]
    /\ UNCHANGED <<registryVars, argVars, fallbackRequest, fullText, sources, stream, fallbackStream,
                   delivered, result, outcome, trace>>
    /\ faults' = Fault(c, "primaryStream")
    /\ UNCHANGED <<proxyVars, appVars>>

\* Lines 81-94: the outer catch logs the error and issues the fallback request.
PrimaryCatch(c) ==
    /\ pc[c] = "primaryCatch"
    /\ pc' = [pc EXCEPT ![c] = "awaitFallback"]
    /\ trace' = Mark(c, <<"PRIMARY_FAILED", "FALLBACK_STREAMING">>)
    /\ UNCHANGED <<registryVars, argVars, fullText, sources, stream, fallbackStream,
                   delivered, result, outcome, faults>>
    /\ fallbackRequest' = [fallbackRequest EXCEPT ![c] = [contents |-> FallbackContents(c)]]
    /\ UNCHANGED <<proxyVars, appVars>>

\* Lines 88-99: the fallback request resolves with a stream; the notice is
\* put in the fallback's own fullText and handed to onChunk.
FallbackResolves(c, throws) ==
    /\ pc[c] = "awaitFallback"
    /\ fullText' = [fullText EXCEPT ![c] = Accumulate(<<>>, Notice)]
    /\ delivered' = Deliver(c, Notice)
    /\ pc' = [pc EXCEPT ![c] = IF throws THEN Handler("fallbackTry") ELSE "fallbackLoop"]
    /\ UNCHANGED <<registryVars, argVars, fallbackRequest, sources, stream, fallbackStream, result, outcome, trace>>
    /\ faults' = IF throws THEN Fault(c, "onChunk") ELSE faults
    /\ UNCHANGED <<proxyVars, appVars>>

\* Line 88: the fallback request rejects.
FallbackRejects(c) ==
    /\ pc[c] = "awaitFallback"
    /\ pc' = [pc EXCEPT ![c] = Handler("fallbackTry")]
    /\ UNCHANGED <<registryVars, argVars, fallbackRequest, fullText, sources, stream, fallbackStream,
                   delivered, result, outcome, trace>>
    /\ faults' = Fault(c, "fallbackRequest")
    /\ UNCHANGED <<proxyVars, appVars>>

\* Lines 101-107: the fallback stream yields a chunk and the loop body runs.
FallbackChunk(c, chunk, throws) ==
    /\ pc[c] = "fallbackLoop"
    /\ fallbackStream' = [fallbackStream EXCEPT ![c] = Append(@, chunk)]
    /\ IF HasText(chunk)
         THEN /\ fullText' = [fullText EXCEPT ![c] = Accumulate(@, chunk.text)]
              /\ delivered' = Deliver(c, chunk.text)
         ELSE /\ throws = FALSE
              /\ UNCHANGED <<fullText, delivered>>
    /\ pc' = [pc EXCEPT ![c] = IF throws THEN Handler("fallbackTry") ELSE @]
    /\ UNCHANGED <<registryVars, argVars, fallbackRequest, sources, stream, result, outcome, trace>>
    /\ faults' = IF throws THEN Fault(c, "onChunk") ELSE faults
    /\ UNCHANGED <<proxyVars, appVars>>

\* Line 108: the fallback stream is exhausted; return.
FallbackEnd(c) ==
    /\ pc[c] = "fallbackLoop"
    /\ result' = [result EXCEPT ![c] = [text |-> fullText[c], sources |-> FallbackSources(c)]]
    /\ outcome' = [outcome EXCEPT ![c] = "resolved"]
    /\ pc' = [pc EXCEPT ![c] = "done"]
    /\ trace' = Mark(c, <<"SUCCESS">>)
    /\ UNCHANGED <<registryVars, argVars, fallbackRequest, fullText, sources, stream, fallbackStream, delivered, faults>>
    /\ UNCHANGED <<proxyVars, appVars>>

\* Line 101: the fallback stream fails instead of yielding.
FallbackStreamError(c) ==
    /\ pc[c] = "fallbackLoop"
    /\ pc' = [pc EXCEPT ![c] = Handler("fallbackTry")]
    /\ UNCHANGED <<registryVars, argVars, fallbackRequest, fullText, sources, stream, fallbackStream,
                   delivered, result, outcome, trace>>
    /\ faults' = Fault(c, "fallbackStream")
    /\ UNCHANGED <<proxyVars, appVars>>

\* Lines 110-114: the inner catch hands the error notice to onChunk and returns
\* it.  Nothing encloses this block: when onChunk throws here the exception
\* leaves the function and the promise rejects.
FallbackCatch(c, throws) ==
    /\ pc[c] = "fallbackCatch"
    /\ delivered' = Deliver(c, ErrorMsg)
    /\ pc' = [pc EXCEPT ![c] = "done"]
    /\ IF throws
         THEN /\ outcome' = [outcome EXCEPT ![c] = "rejected"]
              /\ trace' = Mark(c, <<"FALLBACK_FAILED">>)
              /\ UNCHANGED result
         ELSE /\ outcome' = [outcome EXCEPT ![c] = "resolved"]
              /\ result' = [result EXCEPT ![c] = [text |-> ErrorMsg, sources |-> FallbackSources(c)]]
              /\ trace' = Mark(c, <<"FALLBACK_FAILED", "TERMINAL_ERROR">>)
    /\ UNCHANGED <<registryVars, argVars, fallbackRequest, fullText, sources, stream, fallbackStream>>
    /\ faults' = IF throws THEN Fault(c, "onChunk") ELSE faults
    /\ UNCHANGED <<proxyVars, appVars>>

-----------------------------------------------------------------------------

\* Number of chunks the streams of calls 1..n have yielded so far.
RECURSIVE Yielded(_)
Yielded(n) == IF n = 0 THEN 0 ELSE Len(stream[n]) + Len(fallbackStream[n]) + Yielded(n - 1)

\* The calls in cs run in the environment env: the prompts the callers pass
\* (prompts), the chunks the provider's primary and fallback streams yield
\* (primaryChunks, fallbackChunks), and whether the callers' onChunk can throw
\* (throws, a set of booleans).  The provider yields at most
\* maxChunks chunks in a run, all streams together.  Step is what a started
\* call does next: the provider answers what the call awaits, or the code runs
\* on to its next await.
Step(c, env) ==
    \/ SendResolves(c)
    \/ SendRejects(c)
    \/ /\ Yielded(MaxCalls) < env.maxChunks
       /\ \E chunk \in env.primaryChunks, throws \in env.throws : PrimaryChunk(c, chunk, throws)
    \/ PrimaryEnd(c)
    \/ PrimaryStreamError(c)
    \/ PrimaryCatch(c)
    \/ \E throws \in env.throws : FallbackResolves(c, throws)
    \/ FallbackRejects(c)
    \/ /\ Yielded(MaxCalls) < env.maxChunks
       /\ \E chunk \in env.fallbackChunks, throws \in env.throws : FallbackChunk(c, chunk, throws)
    \/ FallbackEnd(c)
    \/ FallbackStreamError(c)
    \/ \E throws \in env.throws : FallbackCatch(c, throws)

Run(cs, env) ==
    \E c \in cs :
        \/ \E sid \in SessionIds, p \in env.prompts, createThrows \in BOOLEAN :
              Generate(c, sid, p, createThrows)
        \/ Step(c, env)

\* Concurrent calls on the shared registry; every chunk carries the text "a" and
\* the callers' onChunk returns normally.
Next == Run(Calls, [prompts |-> {"p1"}, throws |-> {FALSE}, maxChunks |-> MaxSharedChunks,
                    primaryChunks |-> {TextChunk(<<"a">>)},
                    fallbackChunks |-> {TextChunk(<<"a">>)}])

Spec == Init /\ [][Next]_vars

\* One call, streams of text chunks (and one chunk with text and grounding).
StreamEnv == [prompts |-> Prompts, throws |-> BOOLEAN, maxChunks |-> MaxChunks,
              primaryChunks |-> TextChunks \cup BothChunks,
              fallbackChunks |-> TextChunks \cup BothChunks]

StreamNext == Run({1}, StreamEnv)

StreamSpec == Init /\ [][StreamNext]_vars

\* The same, when every awaited provider operation completes in the end (the
\* request resolves or rejects, the stream yields, ends or fails) and the code
\* between two awaits runs to its end.  Streams are finite by maxChunks.
FairStreamSpec == StreamSpec /\ WF_vars(Step(1, StreamEnv))

\* One call, primary streams rich in grounding metadata.
SourcesNext == Run({1}, [prompts |-> Prompts, throws |-> BOOLEAN, maxChunks |-> MaxSourceChunks,
                         primaryChunks |-> GroundingChunks \cup BothChunks,
                         fallbackChunks |-> {TextChunk(<<"a">>)}])

SourcesSpec == Init /\ [][SourcesNext]_vars

-----------------------------------------------------------------------------
(* The proxy's handler, index.ts lines 11-98 *)

\* Control reaches the catch block with an error: lines 89-97.
Caught(message) ==
    /\ proxyPc' = "done"
    /\ thrown' = message
    /\ reply' = ErrorReply(message)

\* Lines 11-19: a request arrives; a preflight is answered at once, any other
\* request waits for req.json().
Serve(method, body, key) ==
    /\ proxyPc \in {"idle", "done"}
    /\ request' = [method |-> method, body |-> body, key |-> key]
    /\ response' = NoResponse
    /\ thrown' = Undefined
    /\ fetches' = 0
    /\ IF method = "OPTIONS"
         THEN /\ reply' = Preflight
              /\ proxyPc' = "done"
         ELSE /\ reply' = NoReply
              /\ proxyPc' = "awaitBody"
    /\ UNCHANGED generateVars
    /\ UNCHANGED appVars

\* Lines 19-62: req.json() settles; the query and the key are checked and the
\* provider is called.
BodyParsed ==
    /\ proxyPc = "awaitBody"
    /\ IF ValidationError(request) # Undefined
         THEN /\ Caught(ValidationError(request))
              /\ UNCHANGED fetches
         ELSE /\ fetches' = fetches + 1
              /\ proxyPc' = "awaitFetch"
              /\ UNCHANGED <<reply, thrown>>
    /\ UNCHANGED <<request, response, generateVars>>
    /\ UNCHANGED appVars

\* Lines 56-64: fetch resolves with the provider's response, whose body is
\* then read.
FetchResolves(r) ==
    /\ proxyPc = "awaitFetch"
    /\ response' = r
    /\ proxyPc' = "awaitData"
    /\ UNCHANGED <<request, reply, thrown, fetches, generateVars>>
    /\ UNCHANGED appVars

\* Line 56: fetch rejects.
FetchRejects ==
    /\ proxyPc = "awaitFetch"
    /\ Caught(NetworkError)
    /\ UNCHANGED <<request, response, fetches, generateVars>>
    /\ UNCHANGED appVars

\* Lines 64-87: geminiResponse.json() settles; the status is checked and the
\* answer is returned.
DataParsed ==
    /\ proxyPc = "awaitData"
    /\ IF ResponseError(response) # Undefined
         THEN Caught(ResponseError(response))
         ELSE /\ reply' = AnswerReply(response.data)
              /\ proxyPc' = "done"
              /\ UNCHANGED thrown
    /\ UNCHANGED <<request, response, fetches, generateVars>>
    /\ UNCHANGED appVars

ProxyNext ==
    \/ \E method \in Methods, body \in RequestBodies, key \in ApiKeys : Serve(method, body, key)
    \/ BodyParsed
    \/ \E r \in ProviderResponses : FetchResolves(r)
    \/ FetchRejects
    \/ DataParsed

ProxySpec == Init /\ [][ProxyNext]_vars

-----------------------------------------------------------------------------
(* The App component, part_002: handleSearch and what runs beside it *)

\* Lines 722-726: generateSearchResponse is called.
CallGenerate ==
    generateCalls' = Append(generateCalls, [prompt |-> searchQuery', sessionId |-> activeSessionId'])

\* Lines 692-726: handleSearch runs up to its first await: the insert of the
\* message when a user is logged in, the call of generateSearchResponse
\* otherwise.
HandleSearch(overrideQuery, loggedIn) ==
    LET text == OrElse(overrideQuery, query) IN
    /\ attempt' = [blank |-> text \in {"", " "}, loading |-> isLoading, view |-> currentView,
                   went |-> ~ (Blank(text) \/ isLoading)]
    /\ IF Blank(text) \/ isLoading
         THEN UNCHANGED <<currentView, appSessionId, messages, isLoading, query, searchPc,
                          activeSessionId, searchQuery, generateCalls, newIds>>
         ELSE /\ Len(generateCalls) < MaxSearches
              /\ searchPc = "idle"
              /\ searchQuery' = text
              /\ IF currentView = "home"
                   THEN /\ appSessionId' = NewId(newIds)
                        /\ activeSessionId' = NewId(newIds)
                        /\ newIds' = newIds + 1
                        /\ messages' = <<UserMessage(text), AiPlaceholder>>
                   ELSE /\ activeSessionId' = appSessionId
                        /\ messages' = messages \o <<UserMessage(text), AiPlaceholder>>
                        /\ UNCHANGED <<appSessionId, newIds>>
              /\ currentView' = "search"
              /\ isLoading' = TRUE
              /\ IF loggedIn
                   THEN /\ searchPc' = "awaitInsert"
                        /\ UNCHANGED generateCalls
                   ELSE /\ searchPc' = "awaitGenerate"
                        /\ CallGenerate
              /\ UNCHANGED query
    /\ UNCHANGED <<generateVars, proxyVars>>

\* Lines 716-726: the insert has settled; generateSearchResponse is called.
InsertSettles ==
    /\ searchPc = "awaitInsert"
    /\ searchPc' = "awaitGenerate"
    /\ UNCHANGED <<searchQuery, activeSessionId>>
    /\ CallGenerate
    /\ UNCHANGED <<currentView, appSessionId, messages, isLoading, query, newIds, attempt>>
    /\ UNCHANGED <<generateVars, proxyVars>>

\* Lines 726-755: generateSearchResponse resolves; the result is put into the
\* last message; finally.
GenerateResolves(text) ==
    /\ searchPc = "awaitGenerate"
    /\ messages' = Finish(messages, text)
    /\ isLoading' = FALSE
    /\ query' = ""
    /\ searchPc' = "idle"
    /\ UNCHANGED <<currentView, appSessionId, activeSessionId, searchQuery, generateCalls,
                   newIds, attempt>>
    /\ UNCHANGED <<generateVars, proxyVars>>

\* Lines 726, 750-755: generateSearchResponse rejects; catch and finally.
GenerateRejects ==
    /\ searchPc = "awaitGenerate"
    /\ isLoading' = FALSE
    /\ query' = ""
    /\ searchPc' = "idle"
    /\ UNCHANGED <<currentView, appSessionId, messages, activeSessionId, searchQuery,
                   generateCalls, newIds, attempt>>
    /\ UNCHANGED <<generateVars, proxyVars>>

\* Lines 758-759, 1364: the user goes to another view.
HandleNavClick(view) ==
    /\ currentView' = view
    /\ UNCHANGED <<appSessionId, messages, isLoading, query, searchPc, activeSessionId,
                   searchQuery, generateCalls, newIds, attempt>>
    /\ UNCHANGED <<generateVars, proxyVars>>

\* Lines 830, 904, 1372: the user edits the search box.
SetQuery(text) ==
    /\ query' = text
    /\ UNCHANGED <<currentView, appSessionId, messages, isLoading, searchPc, activeSessionId,
                   searchQuery, generateCalls, newIds, attempt>>
    /\ UNCHANGED <<generateVars, proxyVars>>

AppNext ==
    \/ \E overrideQuery \in Overrides, loggedIn \in BOOLEAN : HandleSearch(overrideQuery, loggedIn)
    \/ InsertSettles
    \/ \E text \in ResultTexts : GenerateResolves(text)
    \/ GenerateRejects
    \/ \E view \in Views : HandleNavClick(view)
    \/ \E text \in QueryTexts : SetQuery(text)

AppSpec == Init /\ [][AppNext]_vars

-----------------------------------------------------------------------------
(* Vocabulary of the properties *)

Last(s) == s[Len(s)]

\* The grounding entries with a web object of the chunks of a stream, in the
\* order the stream brought them.
RECURSIVE WebOf(_)
WebOf(chunks) ==
    IF chunks = <<>> THEN <<>>
    ELSE SelectSeq(Head(chunks).groundingChunks, LAMBDA e : e.hasWeb) \o WebOf(Tail(chunks))

Min(a, b) == IF a <= b THEN a ELSE b
IsPrefix(s, t) == Len(s) <= Len(t) /\ SubSeq(t, 1, Len(s)) = s

\* The text increments of a stream, in emission order: the non-empty texts.
RECURSIVE Increments(_)
Increments(chunks) ==
    IF chunks = <<>> THEN <<>>
    ELSE (IF Head(chunks).hasText /\ Head(chunks).text # <<>> THEN <<Head(chunks).text>> ELSE <<>>)
           \o Increments(Tail(chunks))

\* The concatenation of a sequence of strings.
RECURSIVE Concat(_)
Concat(texts) == IF texts = <<>> THEN <<>> ELSE Head(texts) \o Concat(Tail(texts))

Done(c) == pc[c] = "done"
PrimarySuccess(c) == Done(c) /\ trace[c] = <<"START", "PRIMARY_STREAMING", "SUCCESS">>
PrimaryFailed(c) == \E i \in DOMAIN trace[c] : trace[c][i] = "PRIMARY_FAILED"
FallbackFailed(c) == \E i \in DOMAIN trace[c] : trace[c][i] = "FALLBACK_FAILED"
Failed(c, what) == \E i \in DOMAIN faults[c] : faults[c][i] = what

SuccessPath == <<"START", "PRIMARY_STREAMING", "SUCCESS">>
FallbackPath == <<"START", "PRIMARY_STREAMING", "PRIMARY_FAILED", "FALLBACK_STREAMING", "SUCCESS">>
TerminalPath == <<"START", "PRIMARY_STREAMING", "PRIMARY_FAILED", "FALLBACK_STREAMING",
                  "FALLBACK_FAILED", "TERMINAL_ERROR">>

-----------------------------------------------------------------------------
(* Properties *)

\* C1: generateSearchResponse never rejects: whatever the prompt, the session
\* id, the onChunk callback and the provider's failures, no call ends with a
\* rejected promise.  (Refuted: onChunk(errorMsg) at line 112 is outside every
\* try block, so a callback that throws there rejects the promise.)
C1_NeverRejects == \A c \in Calls : outcome[c] # "rejected"

\* C2: the registry holds at most one session object per session id, and every
\* call that has sent its prompt sent it on the object stored under its id,
\* which is still the stored one (the entry is never replaced).
C2_OneSessionPerId ==
    /\ \A e1, e2 \in chatSessions : e1[1] = e2[1] => e1 = e2
    /\ \A c \in Calls : chat[c] # NoChat =>
          /\ MapGet(chatSessions, sessionId[c]) = chat[c]
          /\ \E i \in DOMAIN history[chat[c]] : history[chat[c]][i].call = c
    /\ \A o \in ChatIds : \A i \in DOMAIN history[o] : chat[history[o][i].call] = o

\* Two calls with the same session id have sent on one and the same object.
C2_Witness ==
    \E c1, c2 \in Calls :
        /\ c1 < c2 /\ sessionId[c1] = sessionId[c2]
        /\ chat[c1] # NoChat /\ chat[c2] = chat[c1]
        /\ created = 1
        /\ Len(history[chat[c1]]) = 2

\* C3: calls with different session ids send on distinct session objects, and
\* the history of the object stored under an id holds only sends made under
\* that id.
C3_NoSharedContext ==
    /\ \A c1, c2 \in Calls :
          (chat[c1] # NoChat /\ chat[c2] # NoChat /\ sessionId[c1] # sessionId[c2])
             => chat[c1] # chat[c2]
    /\ \A e \in chatSessions : \A i \in DOMAIN history[e[2]] :
          /\ history[e[2]][i].sessionId = e[1]
          /\ sessionId[history[e[2]][i].call] = e[1]

\* Two calls with different session ids have both sent their prompts.
C3_Witness ==
    \E c1, c2 \in Calls :
        /\ sessionId[c1] # sessionId[c2]
        /\ chat[c1] # NoChat /\ chat[c2] # NoChat
        /\ Len(history[chat[c1]]) = 1 /\ Len(history[chat[c2]]) = 1

\* C4: when the primary stream is exhausted without error, onChunk was invoked
\* exactly once per text increment, in emission order, and the returned text
\* is the concatenation of the increments in that order.
C4_StreamingOrder ==
    \A c \in Calls : PrimarySuccess(c) =>
        /\ delivered[c] = Increments(stream[c])
        /\ result[c].text = Concat(Increments(stream[c]))

\* A successful primary run of three chunks with different texts, among them
\* a chunk without text.
C4_Witness ==
    \E c \in Calls :
        /\ PrimarySuccess(c)
        /\ Len(stream[c]) = 3
        /\ delivered[c] = << <<"a">>, <<"b">> >>
        /\ result[c].text = <<"a", "b">>

\* C5: after a successful primary run the returned sources hold exactly one
\* entry per distinct uri of the collected list, each kept entry is the first
\* collected entry with its uri, and the kept entries stand in the order of
\* those first occurrences.
C5_FirstPerUri ==
    \A c \in Calls : PrimarySuccess(c) =>
        LET in == sources[c]
            out == result[c].sources
            First(u) == CHOOSE i \in DOMAIN in : in[i].uri = u /\ \A k \in 1..(i - 1) : in[k].uri # u
        IN  /\ \A i, j \in DOMAIN out : out[i].uri = out[j].uri => i = j
            /\ {in[i].uri : i \in DOMAIN in} = {out[j].uri : j \in DOMAIN out}
            /\ \A j \in DOMAIN out : out[j] = in[First(out[j].uri)]
            /\ \A i, j \in DOMAIN out : i < j => First(out[i].uri) < First(out[j].uri)

\* A successful primary run that collected two entries with the uri u1 under
\* different titles, after an entry with another uri, and kept the earlier one.
C5_Witness ==
    \E c \in Calls :
        /\ PrimarySuccess(c)
        /\ sources[c] = << [title |-> "A", uri |-> "u2"], [title |-> "B", uri |-> "u1"],
                           [title |-> "A", uri |-> "u1"] >>
        /\ result[c].sources = << [title |-> "A", uri |-> "u2"], [title |-> "B", uri |-> "u1"] >>

\* C6: when the primary path has failed and neither the fallback request nor
\* the fallback stream fails, the call resolves with a text made of the
\* disclosure notice followed by the fallback increments in emission order,
\* and with no sources.  (Refuted: a throwing onChunk makes the fallback end
\* in the error branch, where the promise can reject; see C1.)
C6_FallbackResult ==
    \A c \in Calls :
        (Done(c) /\ PrimaryFailed(c) /\ ~Failed(c, "fallbackRequest") /\ ~Failed(c, "fallbackStream"))
           => /\ outcome[c] = "resolved"
              /\ result[c].text = Notice \o Concat(Increments(fallbackStream[c]))
              /\ result[c].sources = <<>>

\* C7: when the primary path and the fallback path have both failed, the
\* error notice was handed to onChunk and the call resolves with exactly the
\* error notice as text and with no sources.  (Refuted: the promise rejects
\* when onChunk throws on the error notice; see C1.)
C7_TerminalResult ==
    \A c \in Calls :
        (Done(c) /\ FallbackFailed(c))
           => /\ outcome[c] = "resolved"
              /\ delivered[c] # <<>> /\ Last(delivered[c]) = ErrorMsg
              /\ result[c] = [text |-> ErrorMsg, sources |-> <<>>]

\* C8: a call passes only through START, PRIMARY_STREAMING, then SUCCESS or
\* PRIMARY_FAILED, FALLBACK_STREAMING, then SUCCESS or FALLBACK_FAILED,
\* TERMINAL_ERROR: the fallback is entered only after a primary failure and
\* once, the primary is not re-entered, nothing follows TERMINAL_ERROR.
C8_StateMachine ==
    \A c \in Calls :
        \/ IsPrefix(trace[c], SuccessPath)
        \/ IsPrefix(trace[c], FallbackPath)
        \/ IsPrefix(trace[c], TerminalPath)

\* A call that went all the way to TERMINAL_ERROR.
C8_Witness == \E c \in Calls : Done(c) /\ trace[c] = TerminalPath

\* C9: every call resolves with a non-empty text.  (Refuted: a primary stream
\* that ends without a text increment resolves with the empty text.)
C9_NonEmptyText ==
    \A c \in Calls : Done(c) => (outcome[c] = "resolved" /\ result[c].text # <<>>)

\* C10: a session is stored by the first call for an unseen id whose session
\* creation succeeds, and a stored entry stays in the registry, unchanged, in
\* every later state, whatever becomes of the calls.
C10_SessionsPersist ==
    /\ [](\A c \in Calls : (pc[c] # "idle" /\ ~Failed(c, "create")) =>
             <<sessionId[c], chat[c]>> \in chatSessions)
    /\ [][\A e \in chatSessions : e \in chatSessions']_vars

\* Two sessions are stored and the call that created the first has ended in
\* the terminal error.
C10_Witness ==
    \E c \in Calls :
        /\ Done(c) /\ trace[c] = TerminalPath
        /\ chat[c] = 1
        /\ <<sessionId[c], 1>> \in chatSessions
        /\ Cardinality(chatSessions) = 2

\* C11: nothing serializes calls that share a session id.  While a call is
\* consuming its response stream, a further call with the same id can start
\* at once, and when it does its prompt is sent on the same session object,
\* the first call staying in its stream loop.
C11_NoSerialization ==
    /\ [](\A c1, c2 \in Calls :
            (pc[c1] = "primaryLoop" /\ pc[c2] = "idle" /\ (\A d \in Calls : d < c2 => pc[d] # "idle"))
               => ENABLED Generate(c2, sessionId[c1], "p1", FALSE))
    /\ [][\A c1, c2 \in Calls :
            (pc[c1] = "primaryLoop" /\ pc[c2] = "idle" /\ pc'[c2] = "awaitSend"
               /\ sessionId'[c2] = sessionId[c1])
               => /\ chat'[c2] = chat[c1]
                  /\ Len(history'[chat[c1]]) = Len(history[chat[c1]]) + 1
                  /\ Last(history'[chat[c1]]).call = c2
                  /\ pc'[c1] = "primaryLoop"]_vars

\* The second call's prompt was sent on the session while the first call,
\* which has received a chunk, is still consuming its stream.
C11_Witness ==
    \E c1, c2 \in Calls :
        /\ c1 # c2 /\ sessionId[c1] = sessionId[c2]
        /\ pc[c1] = "primaryLoop" /\ Len(stream[c1]) = 1
        /\ chat[c2] = chat[c1]
        /\ Len(history[chat[c1]]) = 2
        /\ history[chat[c1]][1].call = c1
        /\ history[chat[c1]][2].call = c2
        /\ c1 \in history[chat[c1]][2].streaming

\* The stream increments among the strings handed to onChunk (the two fixed
\* notices left out).
IsIncrement(t) == t # Notice /\ t # ErrorMsg
StreamDeliveries(c) == SelectSeq(delivered[c], IsIncrement)

\* C12: onChunk runs inside the loop body, before the next chunk is taken
\* from the stream: in every state all text increments received so far have
\* been handed to onChunk, in order, and a step takes at most one chunk, so
\* no more than the current chunk is ever held undelivered.
C12_NoBuffering ==
    /\ [](\A c \in Calls :
            StreamDeliveries(c) = Increments(stream[c]) \o Increments(fallbackStream[c]))
    /\ [][\A c \in Calls :
            Len(stream'[c]) + Len(fallbackStream'[c]) <= Len(stream[c]) + Len(fallbackStream[c]) + 1]_vars

\* A call in the middle of its primary stream: two increments received and
\* delivered, the stream not yet exhausted.
C12_Witness ==
    \E c \in Calls :
        /\ pc[c] = "primaryLoop"
        /\ Len(stream[c]) = 2
        /\ delivered[c] = << <<"a">>, <<"b">> >>

\* C13: every result the fallback path produces, the fallback's answer and
\* the terminal error alike, has no sources, also when the primary path had
\* collected sources before it failed.
C13_FallbackNoSources ==
    \A c \in Calls :
        (outcome[c] = "resolved" /\ PrimaryFailed(c)) => result[c].sources = <<>>

\* A fallback answer returned without sources after the primary path had
\* collected two of them and then failed.
C13_Witness ==
    \E c \in Calls :
        /\ outcome[c] = "resolved" /\ trace[c] = FallbackPath
        /\ Len(sources[c]) = 2
        /\ Len(fallbackStream[c]) = 1
        /\ result[c].sources = <<>>

\* Number of times onChunk was handed the string t during call c.
Times(c, t) == Cardinality({k \in DOMAIN delivered[c] : delivered[c][k] = t})

\* The fallback request of call c has resolved with a stream (lines 88-94).
FallbackStreamObtained(c) ==
    PrimaryFailed(c) /\ pc[c] # "awaitFallback" /\ ~Failed(c, "fallbackRequest")

\* C14 as stated: whenever the fallback path has run, the disclosure notice
\* was handed to onChunk exactly once.  (Refuted: the notice is emitted only
\* after the awaited fallback request has resolved; when that request rejects
\* the call goes to the error branch and the notice is never delivered.)
C14_NoticeWheneverFallbackRuns ==
    \A c \in Calls : (Done(c) /\ PrimaryFailed(c)) => Times(c, Notice) = 1

\* C14 amended: once the fallback request has resolved with a stream, the
\* notice starts the fallback's accumulator and was handed to onChunk exactly
\* once, after the primary increments and before every fallback increment;
\* as long as the request has not resolved, and when it rejects, the notice
\* is not delivered at all.
C14_NoticeBeforeFallbackStream ==
    \A c \in Calls :
        IF FallbackStreamObtained(c)
          THEN LET k == Len(Increments(stream[c])) + 1
                   rest == SubSeq(delivered[c], k + 1, Len(delivered[c]))
               IN  /\ Times(c, Notice) = 1
                   /\ Len(delivered[c]) >= k /\ delivered[c][k] = Notice
                   /\ SubSeq(delivered[c], 1, k - 1) = Increments(stream[c])
                   /\ SelectSeq(rest, IsIncrement) = Increments(fallbackStream[c])
                   /\ IsPrefix(Notice, fullText[c])
          ELSE Times(c, Notice) = 0

\* A fallback answer: one primary increment, the failure, the notice, then one
\* fallback increment.
C14_Witness ==
    \E c \in Calls :
        /\ Done(c) /\ trace[c] = FallbackPath
        /\ delivered[c] = << <<"a">>, Notice, <<"b">> >>
        /\ result[c].text = Notice \o <<"b">>

FallbackPcs == {"primaryCatch", "awaitFallback", "fallbackLoop", "fallbackCatch"}

\* C15: the fallback request is single-turn.  It carries the call's prompt and
\* nothing else, and no step a call takes on its fallback path (issuing the
\* request, receiving its chunks, failing) touches the registry or sends on a
\* session: chatSessions and the sessions' histories stay as they are.
C15_FallbackSingleTurn ==
    /\ [](\A c \in Calls :
            IF PrimaryFailed(c) THEN fallbackRequest[c] = [contents |-> <<prompt[c]>>]
            ELSE fallbackRequest[c] = NoRequest)
    /\ [][\A c \in Calls :
            (pc[c] \in FallbackPcs /\ (pc'[c] # pc[c] \/ fallbackStream'[c] # fallbackStream[c]))
               => UNCHANGED <<chatSessions, created, history>>]_vars

\* A call on a session that holds two sends has got its fallback answer, and
\* the session still holds exactly those two sends.
C15_Witness ==
    \E c \in Calls :
        /\ Done(c) /\ trace[c] = FallbackPath
        /\ Len(fallbackStream[c]) = 1
        /\ chat[c] # NoChat /\ <<sessionId[c], chat[c]>> \in chatSessions
        /\ Len(history[chat[c]]) = 2
        /\ fallbackRequest[c] = [contents |-> <<prompt[c]>>]

\* C16: when every awaited provider operation completes and the streams are
\* finite, every call ends resolved, in SUCCESS (of the primary or of the
\* fallback) or in TERMINAL_ERROR.  (Refuted: the call does end, but it ends
\* rejected, outside these states, when onChunk throws on the error notice;
\* see C1.)
C16_EndsResolved ==
    \A c \in Calls :
        Done(c) => /\ outcome[c] = "resolved"
                   /\ trace[c] \in {SuccessPath, FallbackPath, TerminalPath}

\* What does hold under FairStreamSpec: every started call ends, resolved or
\* rejected.  Without the fairness nothing makes a call leave an await: there
\* is no timeout and no cancellation among the actions.
C16_Settles == \A c \in Calls : (pc[c] # "idle") ~> Done(c)

\* C17: the Source made from a grounding entry with a web object has the
\* title "Source" where the entry's title is absent and the uri "#" where its
\* uri is absent, and a title or uri that is present is copied unchanged.
\* (Refuted: a title or uri that is present and empty is replaced too.)
C17_PresentCopied ==
    \A c \in Calls : pc[c] = "primaryLoop" =>
        LET web == WebOf(stream[c]) IN
        \A i \in 1..Min(Len(web), Len(sources[c])) :
            /\ sources[c][i].title = IF web[i].title = Undefined THEN "Source" ELSE web[i].title
            /\ sources[c][i].uri = IF web[i].uri = Undefined THEN "#" ELSE web[i].uri

\* C17, amended: the Source made from a grounding entry with a web object has
\* the title "Source" where the entry's title is absent or empty and the uri
\* "#" where its uri is absent or empty, and a non-empty title or uri is
\* copied unchanged.
C17_Placeholders ==
    \A c \in Calls : pc[c] = "primaryLoop" =>
        LET web == WebOf(stream[c]) IN
        \A i \in 1..Min(Len(web), Len(sources[c])) :
            /\ sources[c][i].title = IF web[i].title \in {Undefined, ""} THEN "Source" ELSE web[i].title
            /\ sources[c][i].uri = IF web[i].uri \in {Undefined, ""} THEN "#" ELSE web[i].uri

\* The stream brought an entry without title and with the uri u1, then one with
\* the title A and an empty uri, and the two Sources are collected.
C17_Witness ==
    \E c \in Calls :
        /\ pc[c] = "primaryLoop"
        /\ WebOf(stream[c]) = << [hasWeb |-> TRUE, title |-> Undefined, uri |-> "u1"],
                                 [hasWeb |-> TRUE, title |-> "A", uri |-> ""] >>
        /\ sources[c] = << [title |-> "Source", uri |-> "u1"], [title |-> "A", uri |-> "#"] >>

\* C18: extraction collects one candidate Source per grounding entry with a web
\* object and none for an entry without one: after every chunk the number of
\* collected candidates is the number of web entries the stream has brought.
C18_OnePerWebEntry ==
    \A c \in Calls : pc[c] = "primaryLoop" => Len(sources[c]) = Len(WebOf(stream[c]))

\* A chunk brought a web entry, an entry without web and the web entry again,
\* and two candidates are collected.
C18_Witness ==
    \E c \in Calls :
        /\ pc[c] = "primaryLoop"
        /\ \E k \in DOMAIN stream[c] :
              /\ Len(stream[c][k].groundingChunks) = 3
              /\ ~ stream[c][k].groundingChunks[2].hasWeb
        /\ Len(stream[c]) = 1
        /\ Len(sources[c]) = 2

\* What the proxy has answered a request that was no preflight.
Answered == proxyPc = "done" /\ request.method # "OPTIONS"

\* C19: the proxy answers every request that is no preflight with status 200
\* and the keys answer and groundingMetadata, after a provider call that
\* succeeded, or with status 500 and the key error, after something failed
\* (the body does not parse, the query or the API key is missing, the fetch
\* rejects, the provider's status is not OK); every error reaches the catch
\* block, and the handler returns a Response in all cases.
C19_TwoShapes ==
    /\ Answered =>
          \/ /\ reply.status = 200
             /\ Keys(reply.body) = {"answer", "groundingMetadata"}
             /\ thrown = Undefined
             /\ fetches = 1 /\ response.ok
          \/ /\ reply.status = 500
             /\ Keys(reply.body) = {"error"}
             /\ thrown # Undefined
    /\ Answered /\ ( \/ ~ request.body.parses
                     \/ request.body.query \in {Undefined, ""}
                     \/ request.key \in {Undefined, ""}
                     \/ fetches = 0
                     \/ ~ response.ok )
          => reply.status = 500 /\ Keys(reply.body) = {"error"}
    /\ proxyPc = "done" => reply # NoReply

\* A request answered 500 because the provider's status was not OK.
C19_Witness ==
    /\ Answered
    /\ fetches = 1 /\ response.parses /\ ~ response.ok
    /\ reply.status = 500
    /\ reply.body.error = "quota exceeded"

\* C20: when the provider answers OK and candidates[0].content.parts[0].text
\* is missing or empty, the proxy answers 200 with the placeholder answer;
\* groundingMetadata is null when the candidate carries none; the answer of a
\* 200 reply to a search is never empty.  (Refuted: an OK response whose body
\* is no JSON or is JSON null is answered 500.)
C20_PlaceholderNotFailure ==
    Answered /\ fetches = 1 /\ response.ok =>
        LET text == IF response.parses THEN TextOf(Candidate0(response.data)) ELSE Undefined
            metadata == IF response.parses THEN MetadataOf(Candidate0(response.data)) ELSE Undefined
        IN  /\ reply.status = 200
            /\ reply.body.answer \notin {Undefined, ""}
            /\ text \in {Undefined, ""} => reply.body.answer = Placeholder
            /\ metadata = Undefined => reply.body.groundingMetadata = Null

\* The Source the code makes of a web entry.
SourceOf(e) ==
    [title |-> IF e.title \in {Undefined, ""} THEN "Source" ELSE e.title,
     uri |-> IF e.uri \in {Undefined, ""} THEN "#" ELSE e.uri]

\* C21: while the primary stream runs, the source list holds the Sources of
\* the web entries of all chunks received so far, not only of the last, in
\* chunk order and then entry order, duplicates included; a chunk with text
\* and metadata has its text accumulated and its entries collected; the
\* duplicates are removed only in the result of the exhausted stream.
C21_RunningSources ==
    \A c \in Calls :
        /\ pc[c] = "primaryLoop" \/ PrimarySuccess(c) =>
              LET web == WebOf(stream[c]) IN
              /\ Len(sources[c]) = Len(web)
              /\ \A i \in DOMAIN web : sources[c][i] = SourceOf(web[i])
              /\ fullText[c] = Concat(Increments(stream[c]))
        /\ PrimarySuccess(c) =>
              /\ \A i, j \in DOMAIN result[c].sources :
                    result[c].sources[i].uri = result[c].sources[j].uri => i = j
              /\ {result[c].sources[i] .uri : i \in DOMAIN result[c].sources}
                    = {sources[c][i].uri : i \in DOMAIN sources[c]}

\* The stream is still running; its first chunk carried text and the same web
\* entry twice, its second chunk two entries in the order u2, u1; the list
\* holds all four Sources in that order, with the duplicates.
C21_Witness ==
    \E c \in Calls :
        /\ pc[c] = "primaryLoop"
        /\ Len(stream[c]) = 2
        /\ HasText(stream[c][1]) /\ stream[c][1].hasGrounding
        /\ fullText[c] = <<"a">>
        /\ sources[c] = << [title |-> "A", uri |-> "u1"], [title |-> "A", uri |-> "u1"],
                           [title |-> "A", uri |-> "u2"], [title |-> "B", uri |-> "u1"] >>

\* C22: a request with no query or an empty one, or a deployment without
\* GEMINI_API_KEY, is answered 500 without a provider call; when both are
\* missing the error is the one of the missing query; the provider is called
\* at most once per request.
C22_ValidatesFirst ==
    /\ fetches <= 1
    /\ Answered /\ (request.body.query \in {Undefined, ""} \/ request.key \in {Undefined, ""})
          => reply.status = 500 /\ fetches = 0
    /\ Answered /\ request.body.parses /\ ~ request.body.isNull
                /\ request.body.query \in {Undefined, ""}
          => reply.body.error = MissingQuery
    /\ Answered /\ request.body.query \notin {Undefined, ""} /\ request.key \in {Undefined, ""}
          => reply.body.error = MissingKey
    /\ fetches = 1 => request.body.query = "q" /\ request.key = "key"

\* A request with neither query nor key, answered with the missing-query error.
C22_Witness ==
    /\ Answered
    /\ request.body = RequestBody("") /\ request.key = Undefined
    /\ reply = ErrorReply(MissingQuery)
    /\ fetches = 0

\* C23: when the provider's status is not OK the proxy answers 500, with the
\* provider's error message when the payload has one and with the fixed
\* default message otherwise.  (Refuted: when the payload of the non-OK
\* response is no JSON, or is JSON null, the error is the message of the
\* parse or type error.)
C23_ProviderErrorMessage ==
    Answered /\ fetches = 1 /\ ~ response.ok =>
        LET hasMessage == /\ response.parses /\ ~ response.data.isNull
                          /\ response.data.errorMessage \notin {Undefined, ""}
        IN  /\ reply.status = 500
            /\ reply.body.error = IF hasMessage THEN response.data.errorMessage ELSE DefaultError

\* What does hold: a non-OK provider status is never answered 200, and a
\* payload that is a JSON object gives its error message or the default.
C23_Never200 ==
    Answered /\ fetches = 1 /\ ~ response.ok =>
        /\ reply.status = 500
        /\ reply.body.answer = Undefined
        /\ response.parses /\ ~ response.data.isNull =>
              reply.body.error = IF response.data.errorMessage \in {Undefined, ""}
                                   THEN DefaultError ELSE response.data.errorMessage

\* The session ids the App has had in use so far.
UsedIds == {appSessionId} \cup {generateCalls[i].sessionId : i \in DOMAIN generateCalls}

\* C24: an invocation of handleSearch with a blank query, or while isLoading is
\* true, changes nothing and calls nothing.  Any other invocation from the
\* home view takes a session id not used before, makes it the App's session
\* id and sets the message list to the user message and the streaming
\* placeholder alone; from any other view it keeps the App's session id and
\* appends the two messages to the list.  The call of generateSearchResponse
\* that follows is given the query and that session id.
C24_SearchStart ==
    [][ /\ \A overrideQuery \in Overrides, loggedIn \in BOOLEAN :
              HandleSearch(overrideQuery, loggedIn) =>
                  LET text == IF overrideQuery = Undefined THEN query ELSE overrideQuery
                      two == <<[role |-> "user", content |-> text, isStreaming |-> FALSE],
                               [role |-> "model", content |-> "", isStreaming |-> TRUE]>>
                  IN  IF text \in {"", " "} \/ isLoading
                        THEN UNCHANGED <<currentView, appSessionId, messages, isLoading, query,
                                         searchPc, generateCalls>>
                        ELSE /\ isLoading'
                             /\ IF currentView = "home"
                                  THEN /\ appSessionId' \notin UsedIds
                                       /\ messages' = two
                                  ELSE /\ appSessionId' = appSessionId
                                       /\ messages' = messages \o two
                             /\ activeSessionId' = appSessionId'
                             /\ searchQuery' = text
        /\ Len(generateCalls') > Len(generateCalls) =>
              /\ generateCalls' = Append(generateCalls, [prompt |-> searchQuery', sessionId |-> appSessionId'])
              /\ activeSessionId' = appSessionId'
              /\ searchPc = "awaitInsert" =>
                    searchQuery' = searchQuery /\ appSessionId' = appSessionId
      ]_vars

\* Two searches were started from the home view and one, between them, from
\* the results view: the calls carry the ids 2, 2 and 3, and the list holds
\* the two messages of the last search alone.
C24_Witness ==
    /\ Len(generateCalls) = 3
    /\ generateCalls[1].sessionId = 2 /\ generateCalls[2].sessionId = 2
    /\ generateCalls[3].sessionId = 3
    /\ attempt = [blank |-> FALSE, loading |-> FALSE, view |-> "home", went |-> TRUE]
    /\ messages = <<UserMessage("tag"), AiPlaceholder>>

\* C25: the text a call resolves with is the concatenation, in order, of all
\* the strings onChunk was called with during the call, whatever the outcome.
\* (Refuted: what the primary delivered before it failed, and what the
\* fallback delivered before it failed, is not in the returned text, also
\* when onChunk never throws.)
C25_TextIsWhatWasDelivered ==
    \A c \in Calls :
        Done(c) /\ outcome[c] = "resolved" /\ ~ Failed(c, "onChunk")
            => result[c].text = Concat(delivered[c])

\* What does hold: the returned text is the concatenation of the strings
\* delivered since the last path was entered, a suffix of the deliveries.
C25_TextIsLastPathDeliveries ==
    \A c \in Calls :
        Done(c) /\ outcome[c] = "resolved" =>
            \E k \in 0..Len(delivered[c]) :
                result[c].text = Concat(SubSeq(delivered[c], k + 1, Len(delivered[c])))

\* C26: calls that overlap in time and carry the same, previously unseen
\* session id create one session object between them.  Every object created
\* is in the registry under its one id as soon as the creating call is
\* suspended, so a later call with that id finds it and sends on it; only a
\* call whose creation threw has stored nothing.
C26_OneObjectForConcurrentCalls ==
    /\ created = Cardinality(chatSessions)
    /\ \A o \in 1..created : \E e \in chatSessions : e[2] = o
    /\ \A c1, c2 \in Calls :
          (c1 < c2 /\ pc[c1] # "idle" /\ pc[c2] # "idle" /\ sessionId[c1] = sessionId[c2]
             /\ ~ Failed(c1, "create"))
          => /\ chat[c2] = chat[c1]
             /\ ~ Failed(c2, "create")
             /\ Cardinality({e \in chatSessions : e[1] = sessionId[c1]}) = 1

\* Two calls with the same id are both waiting for their send, the second
\* started while the first was suspended, and one object exists.
C26_Witness ==
    /\ pc[1] = "awaitSend" /\ pc[2] = "awaitSend"
    /\ sessionId[1] = sessionId[2]
    /\ chat[1] = chat[2] /\ chat[1] # NoChat
    /\ created = 1 /\ Cardinality(chatSessions) = 1

\* C27: a step of a call leaves the registry as it is or, when the call starts
\* with an id that has no entry, adds one entry under that id; the entries of
\* the other ids stay.  Nothing else outlives a call: a step changes the
\* accumulator, the source list and the deliveries of the acting call alone,
\* and a call that waits for its send has an empty accumulator and list.
C27_Frame ==
    /\ [](\A c \in Calls : pc[c] = "awaitSend" =>
             fullText[c] = <<>> /\ sources[c] = <<>> /\ delivered[c] = <<>>)
    /\ [][ /\ \/ chatSessions' = chatSessions
              \/ \E c \in Calls :
                    /\ pc[c] = "idle" /\ pc'[c] # "idle"
                    /\ ~ \E e \in chatSessions : e[1] = sessionId'[c]
                    /\ chatSessions' = chatSessions \cup {<<sessionId'[c], chat'[c]>>}
           /\ \A c, d \in Calls :
                 (c # d /\ (pc'[c] # pc[c] \/ stream'[c] # stream[c]
                                             \/ fallbackStream'[c] # fallbackStream[c])) =>
                     /\ fullText'[d] = fullText[d]
                     /\ sources'[d] = sources[d]
                     /\ delivered'[d] = delivered[d]
                     /\ result'[d] = result[d]
         ]_vars

\* The second call has just added the entry of its id beside the entry of the
\* first call, which is consuming its stream.
C27_Witness ==
    /\ pc[1] = "primaryLoop" /\ pc[2] = "awaitSend"
    /\ sessionId[1] # sessionId[2]
    /\ chatSessions = {<<sessionId[1], chat[1]>>, <<sessionId[2], chat[2]>>}
    /\ Len(stream[1]) = 1

\* The sends a call has issued on session objects, and the fallback requests
\* it has issued (one at each entry into the outer catch).
Sends(c) == {<<o, i>> \in ChatIds \X (1..MaxCalls) : i \in DOMAIN history[o] /\ history[o][i].call = c}
FallbackRequests(c) == {i \in DOMAIN trace[c] : trace[c][i] = "PRIMARY_FAILED"}

\* C28: a call issues at most one send on its session and at most one fallback
\* request, two provider requests at most, and repeats neither; a call that
\* succeeded on the primary path issued no fallback request and delivered
\* neither the disclosure notice nor the error notice.
C28_AtMostTwoRequests ==
    \A c \in Calls :
        /\ Cardinality(Sends(c)) <= 1
        /\ Cardinality(FallbackRequests(c)) <= 1
        /\ fallbackRequest[c] # NoRequest <=> FallbackRequests(c) # {}
        /\ PrimarySuccess(c) =>
              /\ Cardinality(Sends(c)) = 1
              /\ fallbackRequest[c] = NoRequest
              /\ Times(c, Notice) = 0
              /\ Times(c, ErrorMsg) = 0

\* A call that succeeded on the primary path after two deliveries, with its
\* one send and no fallback request.
C28_Witness ==
    \E c \in Calls :
        /\ PrimarySuccess(c)
        /\ Len(delivered[c]) = 2
        /\ Cardinality(Sends(c)) = 1
        /\ fallbackRequest[c] = NoRequest

\* C29: onChunk is never called with an empty string.  A chunk whose text is
\* absent or empty is not delivered and leaves the accumulator as it is, in
\* the primary and in the fallback stream: the increments delivered are as
\* many as the chunks with a non-empty text received, and on a primary
\* success the calls of onChunk are exactly that many.
C29_NoEmptyDelivery ==
    \A c \in Calls :
        /\ \A i \in DOMAIN delivered[c] : delivered[c][i] # <<>>
        /\ Len(StreamDeliveries(c))
              = Cardinality({k \in DOMAIN stream[c] : stream[c][k].hasText /\ stream[c][k].text # <<>>})
                + Cardinality({k \in DOMAIN fallbackStream[c] :
                                  fallbackStream[c][k].hasText /\ fallbackStream[c][k].text # <<>>})
        /\ pc[c] = "primaryLoop" => Len(fullText[c]) = Len(delivered[c])
        /\ PrimarySuccess(c) =>
              Len(delivered[c])
                 = Cardinality({k \in DOMAIN stream[c] : stream[c][k].hasText /\ stream[c][k].text # <<>>})

\* A primary success of three chunks, one without text and one with an empty
\* text, with one call of onChunk.
C29_Witness ==
    \E c \in Calls :
        /\ PrimarySuccess(c)
        /\ Len(stream[c]) = 3
        /\ \E k \in DOMAIN stream[c] : ~ stream[c][k].hasText
        /\ \E k \in DOMAIN stream[c] : stream[c][k].hasText /\ stream[c][k].text = <<>>
        /\ Len(delivered[c]) = 1

\* The sources with the placeholder uri in a list, and the web entries of a
\* stream picked by a test on their uri.
Hashes(srcs) == SelectSeq(srcs, LAMBDA x : x.uri = "#")
Entries(chunks, Lacks(_)) == SelectSeq(WebOf(chunks), LAMBDA e : Lacks(e.uri))

====
